---- MODULE Spec2Model ----
(***************************************************************************)
(* Model of the graph / tape / node core of mushin (reverse-mode automatic *)
(* differentiation): src/src/graph/node.rs, src/src/graph/tape.rs,         *)
(* src/src/tensor/variable.rs, src/src/tensor/constant.rs and              *)
(* src/src/tensor/params.rs.                                               *)
(*                                                                         *)
(* Nodes live on a heap of reference-counted cells (Rc<Node>); a heap      *)
(* address is the identity of a node, the field `id` is the number it got  *)
(* from the global COUNTER.  Addresses are opaque: the live nodes are kept *)
(* numbered 1..Len(heap) in creation order.  `slots` is the set of tensors *)
(* client code holds: each is a Variable (tape + node) or a Constant       *)
(* (array).                                                                *)
(* Arrays are sequences of integers, operated on element by element.       *)
(*                                                                         *)
(* The reverse rules of the unary operations (src/src/tensor/mod.rs,      *)
(* src/src/nn/ops.rs), the optimizer (src/src/nn/optimizers.rs) and the   *)
(* context-tape implementation (src/src/context/tape.rs,                  *)
(* src/src/tensor.rs, src/src/gradient.rs) are modelled over the same     *)
(* variables, each under a specification of its own.                      *)
(***************************************************************************)
EXTENDS Integers, Sequences, FiniteSets, TLC

VARIABLES COUNTER, heap, slots, last

vars == <<COUNTER, heap, slots, last>>

\* ---------------------------------------------------------------- bounds
MaxSlots == 4
MaxNodes == 4
MaxVal == 8
MaxGrad == 4
MaxRun == 3

\* values a client declares, the constants it builds, the dropout masks drawn
\* (Dropout with probability 1/2: a kept element of the mask is 1 / (1 - 1/2))
DeclVals == {<<2>>}
ConstVals == {<<3>>}
Masks == {<<2>>}

UnaryOps == {"dropout"}
BinaryOps == {"add", "mul"}

\* ---------------------------------------------------------------- arrays
\* arrayfire::constant(v, dims)
AfConstant(v, dims) == [i \in 1..dims |-> v]

\* Array::dims
Dims(x) == Len(x)

\* arrayfire::add
AfAdd(x, y) == [i \in 1..Len(x) |-> x[i] + y[i]]

\* arrayfire::mul
AfMul(x, y) == [i \in 1..Len(x) |-> x[i] * y[i]]

\* arrayfire::sum_all
RECURSIVE SumAll(_)
SumAll(x) == IF x = <<>> THEN 0 ELSE Head(x) + SumAll(Tail(x))

\* arrayfire::sin and arrayfire::cos; an angle is a number of quarter turns
AfSin(x) == [i \in 1..Len(x) |-> <<0, 1, 0, -1>>[(x[i] % 4) + 1]]
AfCos(x) == [i \in 1..Len(x) |-> <<1, 0, -1, 0>>[(x[i] % 4) + 1]]

\* the unary minus of an Array
AfNeg(x) == [i \in 1..Len(x) |-> 0 - x[i]]

\* maxpool2d::<Pool, 1, Pool> over a column of Len(x) rows: the window that
\* starts at row h (rows from 0) covers the rows h .. h + Pool - 1
Pool == 2
Windows(x) == {h \in 0..(Len(x) - 1) : h % Pool = 0}

\* arrayfire::imax_all over the view of the window: the first row of the
\* window, counted from 0, that holds its largest value
IMaxAll(x, h) ==
    CHOOSE i \in 0..(Pool - 1) :
       /\ \A j \in 0..(Pool - 1) : x[h + j + 1] <= x[h + i + 1]
       /\ \A j \in 0..(i - 1) : x[h + j + 1] < x[h + i + 1]

\* the values and the indices maxpool2d builds
PoolValues(x) ==
    [c \in 1..Cardinality(Windows(x)) |->
        LET h == (c - 1) * Pool IN x[h + IMaxAll(x, h) + 1]]
PoolIndices(x) ==
    [r \in 1..Len(x) |->
        IF \E h \in Windows(x) : IMaxAll(x, h) + h = r - 1 THEN 1 ELSE 0]

IsZero(x) == \A i \in 1..Len(x) : x[i] = 0
Fits(x, cap) == \A i \in 1..Len(x) : x[i] >= 0 /\ x[i] <= cap

\* ---------------------------------------------------------------- origin
OriginDeclaration ==
    [kind |-> "Declaration", params |-> "None", a |-> 0, b |-> 0,
     reverse |-> "none", args |-> <<>>]

OriginUnary(ancestor, reverse, args) ==
    [kind |-> "Unary", params |-> "None", a |-> ancestor, b |-> 0,
     reverse |-> reverse, args |-> args]

OriginBinary(params, a, b, reverse, args) ==
    [kind |-> "Binary", params |-> params, a |-> a, b |-> b,
     reverse |-> reverse, args |-> args]

\* the nodes an origin holds an Rc to
OriginRefs(o) ==
    IF o.kind = "Unary" THEN {o.a}
    ELSE IF o.kind = "Binary"
         THEN (IF o.params \in {"VarVar", "VarConst"} THEN {o.a} ELSE {})
              \cup (IF o.params \in {"VarVar", "ConstVar"} THEN {o.b} ELSE {})
         ELSE {}

\* ---------------------------------------------------------------- reverse rules
\* the forward result of a unary operation
UnaryForward(op, x, args) ==
    IF op = "dropout" THEN AfMul(x, args[1])
    ELSE IF op = "sum" THEN <<SumAll(x)>>
    ELSE IF op = "sin" THEN AfSin(x)
    ELSE IF op = "cos" THEN AfCos(x)
    ELSE IF op = "maxpool2d" THEN PoolValues(x)
    ELSE x

\* the args a unary operation captures for its reverse rule
UnaryArgs(op, mask) == IF op = "dropout" THEN <<mask>> ELSE <<>>

\* UnaryReverseFn: the closures handed to push_unary
UnaryReverseFn(op, df, args) ==
    IF op = "dropout" THEN AfMul(df, args[1])
    ELSE IF op = "sin" THEN AfMul(df, AfCos(args[1]))
    ELSE IF op = "cos" THEN AfMul(df, AfNeg(AfSin(args[1])))
    ELSE IF op = "maxpool2d" THEN args[1]
    ELSE df

\* the forward result of a binary operation
BinaryForward(op, x, y) ==
    IF op = "mul" THEN AfMul(x, y) ELSE AfAdd(x, y)

\* BinaryReverseFn: the closures handed to push_binary
BinaryReverseFn(op, df, args) ==
    IF op = "mul" THEN <<AfMul(df, args[2]), AfMul(df, args[1])>>
    ELSE <<df, df>>

\* ---------------------------------------------------------------- Node
\* a Node::new that starts the grad at ones instead of zeros
NodeNewOnesGrad(data, origin, counter) ==
    [id |-> counter, data |-> data, grad |-> AfConstant(1, Dims(data)),
     origin |-> origin]

\* Node::new: zero grad of the data's dims, id fetched from COUNTER
NodeNew(data, origin, counter) ==
    [id |-> counter, data |-> data, grad |-> AfConstant(0, Dims(data)),
     origin |-> origin]

\* Node::declaration
NodeDeclaration(data, counter) == NodeNew(data, OriginDeclaration, counter)

\* Node::unary
NodeUnary(data, ancestor, reverse, args, counter) ==
    NodeNew(data, OriginUnary(ancestor, reverse, args), counter)

\* Node::binary_varvar
NodeBinaryVarVar(data, a, b, reverse, args, counter) ==
    NodeNew(data, OriginBinary("VarVar", a, b, reverse, args), counter)

\* a Node::binary_varconst that records the ancestor as the second operand
NodeBinaryVarConstSwapped(data, ancestor, reverse, args, counter) ==
    NodeNew(data, OriginBinary("ConstVar", 0, ancestor, reverse, args), counter)

\* Node::binary_varconst
NodeBinaryVarConst(data, ancestor, reverse, args, counter) ==
    NodeNew(data, OriginBinary("VarConst", ancestor, 0, reverse, args), counter)

\* Node::binary_constvar
NodeBinaryConstVar(data, ancestor, reverse, args, counter) ==
    NodeNew(data, OriginBinary("ConstVar", 0, ancestor, reverse, args), counter)

\* a Node::ones_grad that adds one to every element of the grad
OnesGradAdded(h, n) ==
    [h EXCEPT ![n].grad = AfAdd(h[n].grad, AfConstant(1, Dims(h[n].grad)))]

\* Node::ones_grad
OnesGrad(h, n) ==
    [h EXCEPT ![n].grad = AfConstant(1, Dims(h[n].grad))]

\* Node::zero_grad
ZeroGrad(h, n) ==
    [h EXCEPT ![n].grad = AfConstant(0, Dims(h[n].grad))]

\* UnaryOp::reverse: ancestor.grad += partial
\* a UnaryOp::reverse that adds the partial to the grad of every node
UnaryOpReverseEveryNode(h, o, df) ==
    LET partial == UnaryReverseFn(o.reverse, df, o.args)
    IN [n \in DOMAIN h |-> [h[n] EXCEPT !.grad = AfAdd(@, partial)]]

UnaryOpReverse(h, o, df) ==
    LET partial == UnaryReverseFn(o.reverse, df, o.args)
    IN [h EXCEPT ![o.a].grad = AfAdd(h[o.a].grad, partial)]

\* a BinaryOp::reverse that hands the tracked operand of VarConst the partial
\* computed for the Constant
BinaryOpReverseWrongPartial(h, o, df) ==
    LET p == BinaryReverseFn(o.reverse, df, o.args)
    IN IF o.params = "VarVar"
       THEN LET grad_a == AfAdd(h[o.a].grad, p[1])
                grad_b == AfAdd(h[o.b].grad, p[2])
                h1 == [h EXCEPT ![o.a].grad = grad_a]
            IN [h1 EXCEPT ![o.b].grad = grad_b]
       ELSE IF o.params = "VarConst"
       THEN [h EXCEPT ![o.a].grad = AfAdd(h[o.a].grad, p[2])]
       ELSE [h EXCEPT ![o.b].grad = AfAdd(h[o.b].grad, p[1])]

\* BinaryOp::reverse: both sums are computed before either is stored
BinaryOpReverse(h, o, df) ==
    LET p == BinaryReverseFn(o.reverse, df, o.args)
    IN IF o.params = "VarVar"
       THEN LET grad_a == AfAdd(h[o.a].grad, p[1])
                grad_b == AfAdd(h[o.b].grad, p[2])
                h1 == [h EXCEPT ![o.a].grad = grad_a]
            IN [h1 EXCEPT ![o.b].grad = grad_b]
       ELSE IF o.params = "VarConst"
       THEN [h EXCEPT ![o.a].grad = AfAdd(h[o.a].grad, p[1])]
       ELSE [h EXCEPT ![o.b].grad = AfAdd(h[o.b].grad, p[2])]

\* Node::reverse
NodeReverse(h, n) ==
    LET o == h[n].origin
    IN IF o.kind = "Unary" THEN UnaryOpReverse(h, o, h[n].grad)
       ELSE IF o.kind = "Binary" THEN BinaryOpReverse(h, o, h[n].grad)
       ELSE h

\* ---------------------------------------------------------------- Tape
\* Tape::default
EmptyTape == <<>>

\* Tape::push: BTreeMap::insert keyed by the node's id
TapePush(t, id, n) ==
    [i \in DOMAIN t \cup {id} |-> IF i = id THEN n ELSE t[i]]

\* a Tape::merge that returns the clone of self and leaves other out
TapeMergeSelfOnly(t, other) == t

\* a Tape::merge over a Vec: the entries of other are appended after those of
\* self, under the positions that follow
TapeMergeAppended(t, other) ==
    LET top == (CHOOSE m \in DOMAIN t : \A k \in DOMAIN t : k <= m) + 1
    IN [i \in DOMAIN t \cup {k + top : k \in DOMAIN other} |->
           IF i \in DOMAIN t THEN t[i] ELSE other[i - top]]

\* Tape::merge: clone of self extended with the entries of other
TapeMerge(t, other) ==
    [i \in DOMAIN t \cup DOMAIN other |->
        IF i \in DOMAIN other THEN other[i] ELSE t[i]]

MaxOf(S) == CHOOSE m \in S : \A k \in S : k <= m

RECURSIVE KeysDescending(_)
KeysDescending(S) ==
    IF S = {} THEN <<>>
    ELSE <<MaxOf(S)>> \o KeysDescending(S \ {MaxOf(S)})

\* Tape::nodes, read from the back: the nodes by descending key
TapeNodesRev(t) ==
    LET ks == KeysDescending(DOMAIN t)
    IN [i \in 1..Len(ks) |-> t[ks[i]]]

TapeRange(t) == {t[i] : i \in DOMAIN t}

\* ---------------------------------------------------------------- handles
VariableData(tape, node) ==
    [kind |-> "Variable", tape |-> tape, node |-> node, value |-> <<>>]

\* Constant::new
ConstantNew(data) ==
    [kind |-> "Constant", tape |-> EmptyTape, node |-> 0, value |-> data]

\* Variable::new: the node is moved into an Rc and pushed to the tape
VariableNew(tape, id, n) == VariableData(TapePush(tape, id, n), n)

\* Data::values
Values(h, x) == IF x.kind = "Variable" THEN h[x.node].data ELSE x.value

\* ---------------------------------------------------------------- ownership
\* nodes referred to by a tensor: its own node and the entries of its tape
SlotRefs(x) == IF x.kind = "Variable" THEN {x.node} \cup TapeRange(x.tape) ELSE {}

RECURSIVE Closure(_, _)
Closure(h, S) ==
    LET nxt == S \cup UNION {OriginRefs(h[n].origin) : n \in S}
    IN IF nxt = S THEN S ELSE Closure(h, nxt)

\* the nodes that still have a referrer when the tensors held are sl
Alive(h, sl) == Closure(h, UNION {SlotRefs(x) : x \in sl})

\* the node n and everything it transitively depends on
AncestorsOrSelf(h, n) == Closure(h, {n})
Ancestors(h, n) == AncestorsOrSelf(h, n) \ {n}

\* ---------------------------------------------------------------- dispatch
\* what an operation leaves behind: the heap, the counter and the result
Out(h, c, t) == [heap |-> h, counter |-> c, out |-> t]

\* an in-place push_unary: the operand's node takes the result as its data
SingleParamVariableInPlace(h, c, x, result, reverse, args) ==
    Out(Append([h EXCEPT ![x.node].data = result],
               NodeUnary(result, x.node, reverse, args, c)), c + 1,
        VariableNew(x.tape, c, Len(h) + 1))

\* SingleParam::push_unary for Variable
SingleParamVariable(h, c, x, result, reverse, args) ==
    Out(Append(h, NodeUnary(result, x.node, reverse, args, c)), c + 1,
        VariableNew(x.tape, c, Len(h) + 1))

\* SingleParam::push_unary for Constant
SingleParamConstant(h, c, x, result, reverse, args) ==
    Out(h, c, ConstantNew(result))

\* the impl the compiler selects for x.push_unary(..)
PushUnary(h, c, x, result, reverse, args) ==
    IF x.kind = "Variable"
    THEN SingleParamVariable(h, c, x, result, reverse, args)
    ELSE SingleParamConstant(h, c, x, result, reverse, args)

\* DoubleParam::push_binary for (Variable, Variable)
DoubleParamVarVar(h, c, x, y, result, reverse, args) ==
    Out(Append(h, NodeBinaryVarVar(result, x.node, y.node, reverse, args, c)), c + 1,
        VariableNew(TapeMerge(x.tape, y.tape), c, Len(h) + 1))

\* DoubleParam::push_binary for (Variable, Constant)
DoubleParamVarConst(h, c, x, y, result, reverse, args) ==
    Out(Append(h, NodeBinaryVarConst(result, x.node, reverse, args, c)), c + 1,
        VariableNew(TapeMerge(x.tape, x.tape), c, Len(h) + 1))

\* DoubleParam::push_binary for (Constant, Variable)
DoubleParamConstVar(h, c, x, y, result, reverse, args) ==
    Out(Append(h, NodeBinaryConstVar(result, y.node, reverse, args, c)), c + 1,
        VariableNew(TapeMerge(y.tape, y.tape), c, Len(h) + 1))

\* a (Constant, Constant) push_binary that wraps the result in a Variable
DoubleParamConstConstTracked(h, c, x, y, result, reverse, args) ==
    Out(Append(h, NodeDeclaration(result, c)), c + 1,
        VariableNew(EmptyTape, c, Len(h) + 1))

\* DoubleParam::push_binary for (Constant, Constant)
DoubleParamConstConst(h, c, x, y, result, reverse, args) ==
    Out(h, c, ConstantNew(result))

\* the impl the compiler selects for x.push_binary(y, ..)
PushBinary(h, c, x, y, result, reverse, args) ==
    IF x.kind = "Variable" /\ y.kind = "Variable"
    THEN DoubleParamVarVar(h, c, x, y, result, reverse, args)
    ELSE IF x.kind = "Variable"
    THEN DoubleParamVarConst(h, c, x, y, result, reverse, args)
    ELSE IF y.kind = "Variable"
    THEN DoubleParamConstVar(h, c, x, y, result, reverse, args)
    ELSE DoubleParamConstConst(h, c, x, y, result, reverse, args)

\* ---------------------------------------------------------------- backward pass
RECURSIVE ReverseScan(_, _)
\* every node of the sequence has its reverse() called, in order
ReverseScan(h, ns) ==
    IF ns = <<>> THEN h
    ELSE ReverseScan(NodeReverse(h, Head(ns)), Tail(ns))

\* backward(): seed the root with ones, then scan the tape in reverse id order
BackwardHeap(h, x) == ReverseScan(OnesGrad(h, x.node), TapeNodesRev(x.tape))

RECURSIVE ZeroScan(_, _)
ZeroScan(h, ns) ==
    IF ns = <<>> THEN h
    ELSE ZeroScan(ZeroGrad(h, Head(ns)), Tail(ns))

\* reset(): zero the grad of every node of the tape
ResetHeap(h, x) == ZeroScan(h, TapeNodesRev(x.tape))

GradsFit(h) == \A n \in DOMAIN h : Fits(h[n].grad, MaxGrad)
AllZero(h) == \A n \in DOMAIN h : IsZero(h[n].grad)

\* ---------------------------------------------------------------- history
\* the last operation: its name, the node it produced or ran on (0 when the
\* result is a Constant), and for backward / reset the run of consecutive
\* calls on that node ("b" / "r", and "g" for a grad() read in between); a
\* run begins on all-zero gradients. of / value: the node the last grad() of
\* the run read and the array it returned
Did(op, n) == [op |-> op, node |-> n, run |-> <<>>, of |-> 0, value |-> <<>>]

ResultNode(t) == IF t.kind = "Variable" THEN t.node ELSE 0

\* x is the root of the run under way, and the run may go on
RunOn(x) ==
    /\ last.op \in {"backward", "reset", "grad"}
    /\ last.node = x.node
    /\ Len(last.run) < MaxRun

NextRun(x, op, c) ==
    [op |-> op, node |-> x.node,
     run |-> IF RunOn(x) THEN Append(last.run, c) ELSE <<c>>,
     of |-> IF RunOn(x) THEN last.of ELSE 0,
     value |-> IF RunOn(x) THEN last.value ELSE <<>>]

\* ---------------------------------------------------------------- actions
Init ==
    /\ COUNTER = 0
    /\ heap = <<>>
    /\ slots = {}
    /\ last = Did("init", 0)

HasRoom == Cardinality(slots) < MaxSlots
HasNodeRoom == Len(heap) < MaxNodes

\* mu::fill / mu::custom: a declared Variable with a one-node tape
Declare(v) ==
    /\ HasRoom /\ HasNodeRoom
    /\ heap' = Append(heap, NodeDeclaration(v, COUNTER))
    /\ slots' = slots \cup {VariableNew(EmptyTape, COUNTER, Len(heap) + 1)}
    /\ COUNTER' = COUNTER + 1
    /\ last' = Did("declare", Len(heap) + 1)

\* a Constant built from raw values
MakeConstant(v) ==
    /\ HasRoom
    /\ slots' = slots \cup {ConstantNew(v)}
    /\ last' = Did("constant", 0)
    /\ UNCHANGED <<COUNTER, heap>>

\* a unary operation on the tensor x
Unary(x, op, mask) ==
    /\ x \in slots /\ HasRoom
    /\ x.kind = "Variable" => HasNodeRoom
    /\ \E result \in {UnaryForward(op, Values(heap, x), UnaryArgs(op, mask))} :
         /\ Fits(result, MaxVal)
         /\ \E r \in {PushUnary(heap, COUNTER, x, result, op, UnaryArgs(op, mask))} :
              /\ heap' = r.heap
              /\ COUNTER' = r.counter
              /\ slots' = slots \cup {r.out}
              /\ last' = Did("unary", ResultNode(r.out))

\* a binary operation on the tensors x and y
Binary(x, y, op) ==
    /\ x \in slots /\ y \in slots /\ HasRoom
    /\ (x.kind = "Variable" \/ y.kind = "Variable") => HasNodeRoom
    /\ \E args \in {<<Values(heap, x), Values(heap, y)>>} :
         \E result \in {BinaryForward(op, args[1], args[2])} :
            /\ Fits(result, MaxVal)
            /\ \E r \in {PushBinary(heap, COUNTER, x, y, result, op, args)} :
                 /\ heap' = r.heap
                 /\ COUNTER' = r.counter
                 /\ slots' = slots \cup {r.out}
                 /\ last' = Did("binary", ResultNode(r.out))

\* live nodes stay numbered in creation order: the address each kept node gets
Ren(keep) == [a \in keep \cup {0} |-> Cardinality({k \in keep : k <= a})]

DropSlots(sl, ren) ==
    {[u EXCEPT !.node = ren[@], !.tape = [i \in DOMAIN u.tape |-> ren[u.tape[i]]]]
        : u \in sl}

DropHeap(h, keep, ren) ==
    [m \in 1..Cardinality(keep) |->
        LET a == CHOOSE k \in keep : ren[k] = m
        IN [h[a] EXCEPT !.origin.a = ren[@], !.origin.b = ren[@]]]

\* a drop that decrements COUNTER once for the Variable that goes, whether
\* or not its node is destroyed
DropCountsHandles(x) ==
    /\ x \in slots
    /\ \E keep \in {Alive(heap, slots \ {x})} :
         \E ren \in {Ren(keep)} :
            /\ slots' = DropSlots(slots \ {x}, ren)
            /\ heap' = DropHeap(heap, keep, ren)
            /\ COUNTER' = COUNTER - (IF x.kind = "Variable" THEN 1 ELSE 0)
    /\ last' = Did("drop", 0)

\* a drop that destroys the nodes and leaves COUNTER alone
DropKeepsCounter(x) ==
    /\ x \in slots
    /\ \E keep \in {Alive(heap, slots \ {x})} :
         \E ren \in {Ren(keep)} :
            /\ slots' = DropSlots(slots \ {x}, ren)
            /\ heap' = DropHeap(heap, keep, ren)
            /\ COUNTER' = COUNTER
    /\ last' = Did("drop", 0)

\* the tensor x goes out of scope: every node left without a referrer is
\* destroyed, and each destroyed node decrements COUNTER (Drop for Node)
Drop(x) ==
    /\ x \in slots
    /\ \E keep \in {Alive(heap, slots \ {x})} :
         \E ren \in {Ren(keep)} :
            /\ slots' = DropSlots(slots \ {x}, ren)
            /\ heap' = DropHeap(heap, keep, ren)
            /\ COUNTER' = COUNTER - Cardinality(DOMAIN heap \ keep)
    /\ last' = Did("drop", 0)

\* z.backward(), called on zeroed gradients or to go on with the run on z
Backward(x) ==
    /\ x \in slots /\ x.kind = "Variable"
    /\ AllZero(heap) \/ RunOn(x)
    /\ \E h \in {BackwardHeap(heap, x)} :
         /\ GradsFit(h)
         /\ heap' = h
    /\ last' = NextRun(x, "backward", "b")
    /\ UNCHANGED <<COUNTER, slots>>

\* z.reset(), called to go on with the run on z
Reset(x) ==
    /\ x \in slots /\ x.kind = "Variable"
    /\ RunOn(x)
    /\ heap' = ResetHeap(heap, x)
    /\ last' = NextRun(x, "reset", "r")
    /\ UNCHANGED <<COUNTER, slots>>

\* z.backward() called at any time, whatever gradients the graph holds
BackwardAnytime(x) ==
    /\ x \in slots /\ x.kind = "Variable"
    /\ \E h \in {BackwardHeap(heap, x)} :
         /\ GradsFit(h)
         /\ heap' = h
    /\ last' = Did("backward", x.node)
    /\ UNCHANGED <<COUNTER, slots>>

\* z.reset() called at any time
ResetAnytime(x) ==
    /\ x \in slots /\ x.kind = "Variable"
    /\ heap' = ResetHeap(heap, x)
    /\ last' = Did("reset", x.node)
    /\ UNCHANGED <<COUNTER, slots>>

\* the pass calls reverse() on the node n
Reverse(n) ==
    /\ last.op = "init"
    /\ n \in DOMAIN heap
    /\ heap' = NodeReverse(heap, n)
    /\ last' = Did("reverse", n)
    /\ UNCHANGED <<COUNTER, slots>>

\* a Variable::grad that moves the array out of the node and leaves zeros
VariableGradTaken(h, x) ==
    [heap |-> ZeroGrad(h, x.node), value |-> h[x.node].grad]

\* Variable::grad: a clone of the node's grad; the node is only borrowed
VariableGrad(h, x) ==
    [heap |-> h, value |-> h[x.node].grad]

\* x.grad(), called during the run of backward() / reset() calls on a root;
\* the array returned is kept by the caller until the run ends
Grad(x) ==
    /\ x \in slots /\ x.kind = "Variable"
    /\ last.op \in {"backward", "reset", "grad"}
    /\ Len(last.run) < MaxRun
    /\ \E g \in {VariableGrad(heap, x)} :
         /\ heap' = g.heap
         /\ last' = [last EXCEPT !.op = "grad", !.run = Append(@, "g"),
                                 !.of = x.node, !.value = g.value]
    /\ UNCHANGED <<COUNTER, slots>>

\* learning rates handed to SGD::new
Rates == {1}

\* an SGD::new that keeps every node of params
SGDNewUnfiltered(h, params) == params

\* SGD::new: the nodes of params that are declarations
SGDNew(h, params) == {n \in params : h[n].origin.kind = "Declaration"}

\* an SGD::step that also zeroes the grad of the nodes it updates
RECURSIVE SGDStepZeroesGrad(_, _, _)
SGDStepZeroesGrad(h, lr, params) ==
    IF params = {} THEN h
    ELSE LET n == CHOOSE m \in params : TRUE
             step == [i \in 1..Len(h[n].data) |-> h[n].data[i] - lr * h[n].grad[i]]
         IN SGDStepZeroesGrad(
                [h EXCEPT ![n].data = step, ![n].grad = AfConstant(0, Dims(@))],
                lr, params \ {n})

RECURSIVE SGDStep(_, _, _)
\* SGD::step: data = data - lr * grad for every node of the optimizer
SGDStep(h, lr, params) ==
    IF params = {} THEN h
    ELSE LET n == CHOOSE m \in params : TRUE
             step == [i \in 1..Len(h[n].data) |-> h[n].data[i] - lr * h[n].grad[i]]
         IN SGDStep([h EXCEPT ![n].data = step], lr, params \ {n})

\* SGD::new(&[x.node()], lr).step()
Step(x, lr) ==
    /\ x \in slots /\ x.kind = "Variable"
    /\ \E h \in {SGDStep(heap, lr, SGDNew(heap, {x.node}))} :
         /\ \A n \in DOMAIN h : Fits(h[n].data, MaxVal)
         /\ heap' = h
    /\ last' = Did("step", x.node)
    /\ UNCHANGED <<COUNTER, slots>>

\* SGD::new(&[the nodes of the tensors xs], lr).step(); last.of is the
\* number of nodes the optimizer was given
StepAll(xs, lr) ==
    /\ xs # {} /\ xs \subseteq {u \in slots : u.kind = "Variable"}
    /\ \E given \in {{x.node : x \in xs}} :
         /\ \E h \in {SGDStep(heap, lr, SGDNew(heap, given))} :
              /\ \A n \in DOMAIN h : Fits(h[n].data, MaxVal)
              /\ heap' = h
         /\ last' = [Did("stepall", 0) EXCEPT !.of = Cardinality(given)]
    /\ UNCHANGED <<COUNTER, slots>>

\* v.freeze(): consumes the Variable and returns a Constant with its data;
\* the nodes left without a referrer are destroyed as in Drop. last keeps the
\* data of v and where the node of v now is (0 when it was destroyed)
Freeze(x) ==
    /\ x \in slots /\ x.kind = "Variable"
    /\ \E sl \in {(slots \ {x}) \cup {ConstantNew(heap[x.node].data)}} :
         \E keep \in {Alive(heap, sl)} :
            \E ren \in {Ren(keep)} :
               /\ slots' = DropSlots(sl, ren)
               /\ heap' = DropHeap(heap, keep, ren)
               /\ COUNTER' = COUNTER - Cardinality(DOMAIN heap \ keep)
               /\ last' = [Did("freeze", 0) EXCEPT
                              !.of = IF x.node \in keep THEN ren[x.node] ELSE 0,
                              !.value = heap[x.node].data]

\* a Variable::from that leaves the node out of the tape
VariableFromUnpushed(h, c, data) ==
    Out(Append(h, NodeDeclaration(data, c)), c + 1,
        VariableData(EmptyTape, Len(h) + 1))

\* Variable::from(data): a declaration node in a tape of its own
VariableFrom(h, c, data) ==
    Out(Append(h, NodeDeclaration(data, c)), c + 1,
        VariableNew(EmptyTape, c, Len(h) + 1))

\* the Constant c is the one the last call, a freeze(), returned
JustFrozen(c) == last.op = "freeze" /\ last.value = c.value

\* c.unfreeze(): consumes the Constant and returns Variable::from(its data);
\* when c was just frozen, last keeps what the freeze() recorded
Unfreeze(c) ==
    /\ c \in slots /\ c.kind = "Constant"
    /\ HasNodeRoom
    /\ \E r \in {VariableFrom(heap, COUNTER, c.value)} :
         /\ heap' = r.heap
         /\ COUNTER' = r.counter
         /\ slots' = (slots \ {c}) \cup {r.out}
         /\ last' = IF JustFrozen(c)
                    THEN [Did("unfreeze", r.out.node) EXCEPT
                             !.of = last.of, !.value = last.value]
                    ELSE Did("unfreeze", r.out.node)

\* handles a client of the specifications below holds at a time
GraphSlots == 3
GraphRoom == Cardinality(slots) < GraphSlots

Next ==
    \/ GraphRoom /\ \E v \in DeclVals : Declare(v)
    \/ GraphRoom /\ \E v \in ConstVals : MakeConstant(v)
    \/ GraphRoom /\ \E x \in slots, op \in UnaryOps, mask \in Masks : Unary(x, op, mask)
    \/ GraphRoom /\ \E x \in slots, y \in slots, op \in BinaryOps : Binary(x, y, op)
    \/ \E x \in slots : Drop(x)
    \/ \E x \in slots : Backward(x)
    \/ \E x \in slots : Reset(x)

Spec == Init /\ [][Next]_vars

\* node bound of the specifications below
LifeNodes == 3

\* the graph grows while every grad is zero and there is room for a node
LifeRoom == AllZero(heap) /\ Len(heap) < LifeNodes /\ GraphRoom

\* training: gradients are computed, read and applied by the optimizer, and
\* tensors are frozen and dropped at any time
NextLife ==
    \/ LifeRoom /\ \E v \in DeclVals : Declare(v)
    \/ AllZero(heap) /\ GraphRoom /\ \E v \in ConstVals : MakeConstant(v)
    \/ LifeRoom /\ \E x \in slots, op \in UnaryOps, mask \in Masks : Unary(x, op, mask)
    \/ LifeRoom /\ \E x \in slots, y \in slots, op \in BinaryOps : Binary(x, y, op)
    \/ \E x \in slots : Drop(x)
    \/ \E x \in slots : Backward(x)
    \/ \E x \in slots : Reset(x)
    \/ \E x \in slots : Grad(x)
    \/ \E x \in slots, lr \in Rates : Step(x, lr)
    \/ \E x \in slots : Freeze(x)

SpecLife == Init /\ [][NextLife]_vars

\* freezing and unfreezing: tensors are frozen, unfrozen and dropped at any
\* time, whatever the gradients are, and every Constant is a frozen
\* Variable; past LifeNodes nodes the only node made
\* is that of a Constant unfrozen right after its freeze()
NextFreeze ==
    \/ LifeRoom /\ \E v \in DeclVals : Declare(v)
    \/ LifeRoom /\ \E x \in slots, op \in UnaryOps, mask \in Masks : Unary(x, op, mask)
    \/ LifeRoom /\ \E x \in slots, y \in slots, op \in BinaryOps : Binary(x, y, op)
    \/ \E x \in slots : Drop(x)
    \/ \E x \in slots : Backward(x)
    \/ \E x \in slots : Reset(x)
    \/ \E x \in slots : Freeze(x)
    \/ \E c \in slots : (Len(heap) < LifeNodes \/ JustFrozen(c)) /\ Unfreeze(c)

SpecFreeze == Init /\ [][NextFreeze]_vars

\* the operations of the test add_forward_backward and sum_forward_backward
SumOps == {"sum"}
AddOps == {"add"}

\* sums of sums: tensors are declared, added and summed, with up to MaxSlots
\* handles held at a time
NextSum ==
    \/ \E v \in DeclVals : Declare(v)
    \/ \E x \in slots, op \in SumOps, mask \in Masks : Unary(x, op, mask)
    \/ \E x \in slots, y \in slots, op \in AddOps : Binary(x, y, op)
    \/ \E x \in slots : Drop(x)
    \/ \E x \in slots : Backward(x)
    \/ \E x \in slots : Reset(x)

SpecSum == Init /\ [][NextSum]_vars

\* training with an optimizer over any of the tensors held
NextTrain ==
    \/ LifeRoom /\ \E v \in DeclVals : Declare(v)
    \/ LifeRoom /\ \E x \in slots, op \in UnaryOps, mask \in Masks : Unary(x, op, mask)
    \/ LifeRoom /\ \E x \in slots, y \in slots, op \in BinaryOps : Binary(x, y, op)
    \/ \E x \in slots : Drop(x)
    \/ \E x \in slots : Backward(x)
    \/ \E x \in slots : Reset(x)
    \/ \E xs \in SUBSET slots, lr \in Rates : StepAll(xs, lr)

SpecTrain == Init /\ [][NextTrain]_vars

\* the graph grows while there is room for a tensor and for a node
FrameRoom == Len(heap) < LifeNodes /\ GraphRoom

\* passes over several graphs: backward() and reset() are called on any
\* Variable at any time, so a pass meets gradients other passes left
NextFrame ==
    \/ FrameRoom /\ \E v \in DeclVals : Declare(v)
    \/ FrameRoom /\ \E x \in slots, op \in UnaryOps, mask \in Masks : Unary(x, op, mask)
    \/ FrameRoom /\ \E x \in slots, y \in slots, op \in BinaryOps : Binary(x, y, op)
    \/ \E x \in slots : Drop(x)
    \/ \E x \in slots : BackwardAnytime(x)
    \/ \E x \in slots : ResetAnytime(x)

SpecFrame == Init /\ [][NextFrame]_vars

\* the unary operations, the inputs each is applied to and the adjoints a
\* pass hands their nodes
MaxAdjoint == 2
RuleOps == {"reshape", "sin", "cos", "sum", "dropout", "maxpool2d"}
RuleMasks == {<<0, 2>>, <<2, 2>>}
Arrays(n, S) == [1..n -> S]
RuleInputs(op) ==
    IF op \in {"sin", "cos"} THEN Arrays(2, 0..3)
    ELSE IF op = "sum" THEN Arrays(1, 1..2)
    ELSE IF op = "maxpool2d"
    THEN {x \in Arrays(2 * Pool, 1..3) : x[1] # x[2] /\ x[3] # x[4]}
    ELSE Arrays(2, 1..2)

\* the args an operation on x hands to push_unary
RuleArgs(op, x, mask) ==
    IF op \in {"sin", "cos"} THEN <<x>>
    ELSE IF op = "maxpool2d" THEN <<PoolIndices(x)>>
    ELSE UnaryArgs(op, mask)

\* a pass has arrived at the node of z = op(x): the grad of z holds the
\* adjoint df the nodes above handed it, the grad of x is still zero
InitRules ==
    \E op \in RuleOps :
       \E x \in RuleInputs(op), mask \in RuleMasks :
          \E args \in {RuleArgs(op, x, mask)} :
             \E z \in {UnaryForward(op, x, args)} :
                \E df \in Arrays(Len(z), 0..MaxAdjoint) :
                   /\ heap = <<NodeDeclaration(x, 0),
                               [NodeUnary(z, 1, op, args, 1) EXCEPT !.grad = df]>>
                   /\ COUNTER = 2
                   /\ slots = {VariableNew(EmptyTape, 0, 1),
                               VariableNew(TapePush(EmptyTape, 0, 1), 1, 2)}
                   /\ last = Did("init", 0)

NextRules == \E n \in DOMAIN heap : Reverse(n)

SpecRules == InitRules /\ [][NextRules]_vars

\* ================================================================ context tape
\* The context-tape implementation (src/src/context/tape.rs,
\* src/src/tensor.rs, src/src/gradient.rs) keeps one Tape, a Vec<Function>
\* every Variable borrows: here heap is that vector, in push order (the
\* function of index i is heap[i + 1]), slots holds the tensors client code
\* holds (a Variable is its value and its index), and COUNTER is not used.
MaxTape == 3
TensorVals == {<<2>>, <<1, 1>>}
EvalUnaryOps == {"sum"}
EvalBinaryOps == {"add", "multiply"}

\* Function::Nary, Function::Unary, Function::Binary and their parameters
FunctionNary == [kind |-> "Nary"]
VariableParameter(value, index) == [value |-> value, index |-> index]
ConstantParameter(value) == [value |-> value]
FunctionUnary(param, reverse) ==
    [kind |-> "Unary", param |-> param, reverse |-> reverse]
FunctionBinary(params, reverse) ==
    [kind |-> "Binary", params |-> params, reverse |-> reverse]
DoubleParameter(variant, x, y) == [variant |-> variant, x |-> x, y |-> y]

\* Tape::len, Tape::reset and the three pushes: the index returned is the
\* length the tape had
TapeLen(t) == Len(t)
TapeReset(t) == <<>>
TapePushNary(t) == [tape |-> Append(t, FunctionNary), index |-> TapeLen(t)]
TapePushUnary(t, param, reverse) ==
    [tape |-> Append(t, FunctionUnary(param, reverse)), index |-> TapeLen(t)]
TapePushBinary(t, params, reverse) ==
    [tape |-> Append(t, FunctionBinary(params, reverse)), index |-> TapeLen(t)]

\* the tensors of src/src/tensor.rs
TensorVariable(value, index) ==
    [kind |-> "Variable", value |-> value, index |-> index]
TensorConstant(value) == [kind |-> "Constant", value |-> value]

\* the operators of Array: an operand of one element is tiled to the dims of
\* the other
Tiled(x, n) == IF Len(x) = n THEN x ELSE AfConstant(x[1], n)
OpAdd(x, y) ==
    LET n == IF Len(x) >= Len(y) THEN Len(x) ELSE Len(y)
    IN AfAdd(Tiled(x, n), Tiled(y, n))
OpMul(x, y) ==
    LET n == IF Len(x) >= Len(y) THEN Len(x) ELSE Len(y)
    IN AfMul(Tiled(x, n), Tiled(y, n))

\* the forward functions and the reverse functions handed to eval
EvalUnaryForward(op, x) == IF op = "sum" THEN <<SumAll(x)>> ELSE x
EvalUnaryReverse(op, df, x) == df
EvalBinaryForward(op, x, y) ==
    IF op = "multiply" THEN AfMul(x, y) ELSE AfAdd(x, y)
EvalBinaryReverse(op, df, x, y) ==
    IF op = "multiply" THEN <<OpMul(df, y), OpMul(df, x)>> ELSE <<df, df>>

\* the indices a function stores as parameters
ParamIndices(f) ==
    IF f.kind = "Unary" THEN {f.param.index}
    ELSE IF f.kind = "Binary"
    THEN (IF f.params.variant \in {"VariableVariable", "VariableConstant"}
          THEN {f.params.x.index} ELSE {})
         \cup (IF f.params.variant \in {"VariableVariable", "ConstantVariable"}
               THEN {f.params.y.index} ELSE {})
    ELSE {}

\* gradients[index] = &gradients[index] + partial
Accumulate(g, index, partial) ==
    [g EXCEPT ![index + 1] = OpAdd(@, partial)]

\* the body of the loop of Gradients::compute for the function of index i
ComputeStep(g, i, f) ==
    IF f.kind = "Unary"
    THEN Accumulate(g, f.param.index,
                    EvalUnaryReverse(f.reverse, g[i + 1], f.param.value))
    ELSE IF f.kind = "Binary"
    THEN LET p == EvalBinaryReverse(f.reverse, g[i + 1],
                                    f.params.x.value, f.params.y.value)
         IN IF f.params.variant = "VariableConstant"
            THEN Accumulate(g, f.params.x.index, p[1])
            ELSE IF f.params.variant = "ConstantVariable"
            THEN Accumulate(g, f.params.y.index, p[2])
            ELSE Accumulate(Accumulate(g, f.params.x.index, p[1]),
                            f.params.y.index, p[2])
    ELSE g

\* the loop of Gradients::compute, from the function of index i - 1 down; an
\* index outside the vector panics
RECURSIVE ComputeScan(_, _, _)
ComputeScan(t, g, i) ==
    IF i = 0 THEN [ok |-> TRUE, gradients |-> g]
    ELSE IF \E index \in ParamIndices(t[i]) : index >= Len(g)
    THEN [ok |-> FALSE, gradients |-> g]
    ELSE ComputeScan(t, ComputeStep(g, i - 1, t[i]), i - 1)

\* Gradients::compute(z): every gradient starts as constant!(0.0; 1, 1, 1, 1)
\* and that of z is set to ones in the dims of z
GradientsCompute(t, z) ==
    LET zeros == [i \in 1..TapeLen(t) |-> AfConstant(0, 1)]
    IN IF z.index >= Len(zeros)
       THEN [ok |-> FALSE, gradients |-> zeros]
       ELSE ComputeScan(t,
                        [zeros EXCEPT ![z.index + 1] = AfConstant(1, Dims(z.value))],
                        TapeLen(t))

\* Gradients::wrt(x)
GradientsWrt(c, x) ==
    IF c.ok /\ x.index < Len(c.gradients)
    THEN [ok |-> TRUE, value |-> c.gradients[x.index + 1]]
    ELSE [ok |-> FALSE, value |-> <<>>]

TapeRoom == Len(heap) < MaxTape /\ GraphRoom

\* Variable::new(values, tape)
NewVariable(v) ==
    /\ TapeRoom
    /\ \E r \in {TapePushNary(heap)} :
         /\ heap' = r.tape
         /\ slots' = slots \cup {TensorVariable(v, r.index)}
    /\ last' = Did("variable", 0)
    /\ UNCHANGED COUNTER

\* Constant::new(values)
NewConstant(v) ==
    /\ GraphRoom
    /\ slots' = slots \cup {TensorConstant(v)}
    /\ last' = Did("constant", 0)
    /\ UNCHANGED <<COUNTER, heap>>

\* UnaryOp::eval for a Variable and for a Constant
EvalUnary(x, op) ==
    /\ x \in slots /\ GraphRoom
    /\ \E value \in {EvalUnaryForward(op, x.value)} :
         /\ Fits(value, MaxVal)
         /\ IF x.kind = "Variable"
            THEN /\ Len(heap) < MaxTape
                 /\ \E r \in {TapePushUnary(heap, VariableParameter(x.value, x.index), op)} :
                      /\ heap' = r.tape
                      /\ slots' = slots \cup {TensorVariable(value, r.index)}
            ELSE /\ heap' = heap
                 /\ slots' = slots \cup {TensorConstant(value)}
    /\ last' = Did("eval", 0)
    /\ UNCHANGED COUNTER

\* the DoubleParameter of Pair(x, y)
PairParams(x, y) ==
    IF x.kind = "Variable" /\ y.kind = "Variable"
    THEN DoubleParameter("VariableVariable",
                         VariableParameter(x.value, x.index),
                         VariableParameter(y.value, y.index))
    ELSE IF x.kind = "Variable"
    THEN DoubleParameter("VariableConstant",
                         VariableParameter(x.value, x.index),
                         ConstantParameter(y.value))
    ELSE DoubleParameter("ConstantVariable",
                         ConstantParameter(x.value),
                         VariableParameter(y.value, y.index))

\* BinaryOp::eval for the four kinds of Pair; both tensors have the same dims
EvalBinary(x, y, op) ==
    /\ x \in slots /\ y \in slots /\ GraphRoom
    /\ Dims(x.value) = Dims(y.value)
    /\ \E value \in {EvalBinaryForward(op, x.value, y.value)} :
         /\ Fits(value, MaxVal)
         /\ IF x.kind = "Variable" \/ y.kind = "Variable"
            THEN /\ Len(heap) < MaxTape
                 /\ \E r \in {TapePushBinary(heap, PairParams(x, y), op)} :
                      /\ heap' = r.tape
                      /\ slots' = slots \cup {TensorVariable(value, r.index)}
            ELSE /\ heap' = heap
                 /\ slots' = slots \cup {TensorConstant(value)}
    /\ last' = Did("eval", 0)
    /\ UNCHANGED COUNTER

\* a tensor goes out of scope: the tape keeps its functions
DropTensor(x) ==
    /\ x \in slots
    /\ slots' = slots \ {x}
    /\ last' = Did("drop", 0)
    /\ UNCHANGED <<COUNTER, heap>>

\* Tape::reset (Context::reset): the functions go, the tensors held stay
ContextReset ==
    /\ heap # <<>>
    /\ heap' = TapeReset(heap)
    /\ last' = Did("reset", 0)
    /\ UNCHANGED <<COUNTER, slots>>

\* Gradients::compute(&z).wrt(&x): last.value is the array returned, last.of
\* the number of elements of x; an index outside the vector panics
ComputeWrt(z, x) ==
    /\ z \in slots /\ x \in slots
    /\ z.kind = "Variable" /\ x.kind = "Variable"
    /\ \E r \in {GradientsWrt(GradientsCompute(heap, z), x)} :
         last' = IF r.ok
                 THEN [Did("wrt", 0) EXCEPT !.value = r.value,
                                            !.of = Dims(x.value)]
                 ELSE Did("panic", 0)
    /\ UNCHANGED <<COUNTER, heap, slots>>

\* one tape build: tensors are made, operated on, dropped and differentiated
NextTape ==
    \/ \E v \in TensorVals : NewVariable(v)
    \/ \E v \in TensorVals : NewConstant(v)
    \/ \E x \in slots, op \in EvalUnaryOps : EvalUnary(x, op)
    \/ \E x \in slots, y \in slots, op \in EvalBinaryOps : EvalBinary(x, y, op)
    \/ \E x \in slots : DropTensor(x)
    \/ \E z \in slots, x \in slots : ComputeWrt(z, x)

SpecTape == Init /\ [][NextTape]_vars

\* several tape builds: the tape is reset at any time
NextContext ==
    \/ \E v \in TensorVals : NewVariable(v)
    \/ \E x \in slots, op \in EvalUnaryOps : EvalUnary(x, op)
    \/ \E x \in slots : DropTensor(x)
    \/ \E z \in slots, x \in slots : ComputeWrt(z, x)
    \/ ContextReset

SpecContext == Init /\ [][NextContext]_vars

\* ---------------------------------------------------------------- properties
\* the nodes of S that hold x as an operand
Consumers(h, x, S) == {c \in S : x \in OriginRefs(h[c].origin)}

\* c holds x as exactly one of its operands
ReadsOnce(h, c, x) ==
    /\ x \in OriginRefs(h[c].origin)
    /\ ~(h[c].origin.params = "VarVar" /\ h[c].origin.a = h[c].origin.b)

\* the local reverse rule of c towards its operand x, for the gradient df of c
Partial(h, c, x, df) ==
    LET o == h[c].origin
    IN IF o.kind = "Unary" THEN UnaryReverseFn(o.reverse, df, o.args)
       ELSE IF o.a = x THEN BinaryReverseFn(o.reverse, df, o.args)[1]
       ELSE BinaryReverseFn(o.reverse, df, o.args)[2]

Ones(h, n) == AfConstant(1, Dims(h[n].data))

\* a first backward() on zeroed gradients has just run on the node last.node
FirstBackward == last.op = "backward" /\ last.run = <<"b">>

\* C1: after z.backward() on zeroed gradients, a node x read by two different
\* ancestors f and g of z (and by nothing else z depends on) holds the sum of
\* the two partials, f's rule applied to grad(f) plus g's rule applied to grad(g)
C1_AdditiveAccumulation ==
    FirstBackward =>
        \A x \in DOMAIN heap : \A f, g \in Ancestors(heap, last.node) :
            ( /\ f # g
              /\ Consumers(heap, x, AncestorsOrSelf(heap, last.node)) = {f, g}
              /\ ReadsOnce(heap, f, x) /\ ReadsOnce(heap, g, x) )
            => heap[x].grad = AfAdd(Partial(heap, f, x, heap[f].grad),
                                    Partial(heap, g, x, heap[g].grad))

\* C2: after z.backward() on zeroed gradients, for a chain x -> y -> z (z is
\* the only reader of y, y the only reader of x) grad(x) is the chain-rule
\* composition of the reverse rules of z and y, whatever creations and drops
\* of other nodes were interleaved with the construction of the chain
C2_ReverseTopological ==
    FirstBackward =>
        \A y \in OriginRefs(heap[last.node].origin) :
            \A x \in OriginRefs(heap[y].origin) :
                ( /\ Consumers(heap, y, AncestorsOrSelf(heap, last.node)) = {last.node}
                  /\ Consumers(heap, x, AncestorsOrSelf(heap, last.node)) = {y}
                  /\ ReadsOnce(heap, last.node, y) /\ ReadsOnce(heap, y, x) )
                => heap[x].grad =
                     Partial(heap, y, x,
                             Partial(heap, last.node, y, Ones(heap, last.node)))

\* C3: when both operands of z are the same node x (z = x * x), z.backward()
\* on zeroed gradients leaves grad(x) = partial_a + partial_b (4 for x = 2)
C3_SameNodeOperands ==
    FirstBackward =>
        LET o == heap[last.node].origin
            p == BinaryReverseFn(o.reverse, Ones(heap, last.node), o.args)
        IN (o.kind = "Binary" /\ o.params = "VarVar" /\ o.a = o.b)
           => heap[o.a].grad = AfAdd(p[1], p[2])

\* the Variable a step has just produced
Produced(r) == r \in slots' /\ r.kind = "Variable" /\ r.node = last'.node

Constants(sl) == {u \in sl : u.kind = "Constant"}
Variables(sl) == {u \in sl : u.kind = "Variable"}

\* the row of the dispatch table x and y select
Row(x, y) ==
    IF x.kind = "Variable" /\ y.kind = "Variable" THEN "VarVar"
    ELSE IF x.kind = "Variable" THEN "VarConst"
    ELSE IF y.kind = "Variable" THEN "ConstVar"
    ELSE "ConstConst"

BinaryDispatchStep(x, y, op) ==
    LET result == BinaryForward(op, Values(heap, x), Values(heap, y))
    IN IF Row(x, y) = "ConstConst"
       THEN /\ last'.node = 0
            /\ ConstantNew(result) \in slots'
            /\ Variables(slots') = Variables(slots)
       ELSE \E r \in slots' :
              /\ Produced(r)
              /\ r \notin slots
              /\ Constants(slots') = Constants(slots)
              /\ heap'[r.node].data = result
              /\ heap'[r.node].origin.kind = "Binary"
              /\ heap'[r.node].origin.params = Row(x, y)
              /\ heap'[r.node].origin.a = (IF x.kind = "Variable" THEN x.node ELSE 0)
              /\ heap'[r.node].origin.b = (IF y.kind = "Variable" THEN y.node ELSE 0)

\* C4: a binary operation yields a Variable exactly when at least one operand
\* is a Variable, and a Constant otherwise; the new node records its tracked
\* operands as VarConst, ConstVar or VarVar
C4_BinaryDispatch ==
    [][last'.op = "binary" =>
          \A x \in slots, y \in slots, op \in BinaryOps :
             Binary(x, y, op) => BinaryDispatchStep(x, y, op)]_vars

C4_Witness ==
    /\ last.op = "binary" /\ last.node # 0
    /\ heap[last.node].origin.params = "ConstVar"
    /\ heap[last.node].origin.reverse = "add"

UnaryDispatchStep(x, op, mask) ==
    LET result == UnaryForward(op, Values(heap, x), UnaryArgs(op, mask))
    IN IF x.kind = "Variable"
       THEN \E r \in slots' :
              /\ Produced(r)
              /\ heap'[r.node].data = result
              /\ heap'[r.node].origin.kind = "Unary"
              /\ heap'[r.node].origin.a = x.node
              /\ \E k \in DOMAIN r.tape \ DOMAIN x.tape :
                   /\ DOMAIN r.tape = DOMAIN x.tape \cup {k}
                   /\ r.tape[k] = r.node
                   /\ \A i \in DOMAIN x.tape : r.tape[i] = x.tape[i]
       ELSE /\ last'.node = 0
            /\ ConstantNew(result) \in slots'
            /\ Variables(slots') = Variables(slots)

\* C5: a unary operation on a Variable yields a Variable whose tape is the
\* operand's tape plus exactly one new Unary node that has the operand's node
\* as its ancestor; on a Constant it yields a Constant
C5_UnaryDispatch ==
    [][last'.op = "unary" =>
          \A x \in slots, op \in UnaryOps, mask \in Masks :
             Unary(x, op, mask) => UnaryDispatchStep(x, op, mask)]_vars

\* nothing of the graph has changed: no node made, no counter moved, no tape
\* and no gradient touched
GraphUnchanged ==
    /\ COUNTER' = COUNTER
    /\ heap' = heap
    /\ Variables(slots') = Variables(slots)

\* C6: an operation whose operands are all Constants allocates no node: the
\* COUNTER, every tape and every gradient are what they were
C6_ConstantsAllocateNothing ==
    [][ /\ last'.op = "unary" =>
             \A x \in Constants(slots), op \in UnaryOps, mask \in Masks :
                Unary(x, op, mask) => GraphUnchanged
        /\ last'.op = "binary" =>
             \A x \in Constants(slots), y \in Constants(slots), op \in BinaryOps :
                Binary(x, y, op) => GraphUnchanged ]_vars

C6_Witness ==
    /\ last.op = "binary" /\ last.node = 0
    /\ COUNTER > 0
    /\ ConstantNew(<<6>>) \in slots

ZeroInitStep ==
    /\ \A n \in DOMAIN heap' \ DOMAIN heap : IsZero(heap'[n].grad)
    /\ last'.op # "drop" =>
         \A n \in DOMAIN heap :
            (IsZero(heap[n].grad) /\ ~IsZero(heap'[n].grad))
            => /\ last'.op = "backward"
               /\ n \in AncestorsOrSelf(heap, last'.node)
    /\ last'.op = "drop" =>
         \E x \in slots :
            \E keep \in {Alive(heap, slots \ {x})} :
               \E ren \in {Ren(keep)} :
                  /\ slots' = DropSlots(slots \ {x}, ren)
                  /\ Len(heap') = Cardinality(keep)
                  /\ \A n \in keep : heap'[ren[n]].grad = heap[n].grad

\* C7: a node is created with an all-zero grad, and its grad stays all-zero
\* until a backward() runs on that node or on one of its descendants
C7_ZeroInit == [][ZeroInitStep]_vars

C7_Witness ==
    /\ last.op \in {"unary", "binary"} /\ last.node # 0
    /\ IsZero(heap[last.node].grad)
    /\ \E a \in OriginRefs(heap[last.node].origin) : ~IsZero(heap[a].grad)

OneTrackedStep(z) ==
    LET o == heap[z.node].origin
        a == IF o.params = "VarConst" THEN o.a ELSE o.b
        p == BinaryReverseFn(o.reverse, Ones(heap, z.node), o.args)
        part == IF o.params = "VarConst" THEN p[1] ELSE p[2]
        other == IF o.params = "VarConst" THEN o.args[2] ELSE o.args[1]
        seeded == OnesGrad(heap, z.node)
    IN (o.kind = "Binary" /\ o.params \in {"VarConst", "ConstVar"})
       => /\ heap'[a].grad = AfAdd(heap[a].grad, part)
          /\ o.reverse = "mul" => part = other
          /\ \A m \in DOMAIN heap \ {a} :
                NodeReverse(seeded, z.node)[m].grad = seeded[m].grad

\* C8: when z has exactly one tracked operand a, z.backward() adds to grad(a)
\* the partial of the tracked operand only (the value of the Constant, for a
\* multiplication), and z's reverse() changes the grad of no other node
C8_OneTrackedOperand ==
    [][last'.op = "backward" =>
          \A z \in Variables(slots) : z.node = last'.node => OneTrackedStep(z)]_vars

C8_Witness ==
    /\ FirstBackward
    /\ heap[last.node].origin.params = "ConstVar"
    /\ heap[last.node].origin.reverse = "mul"
    /\ heap[heap[last.node].origin.b].grad = <<3>>

\* C9: after z.reset() the grad of z's node and of every node z transitively
\* depends on is all-zero, and a second reset() changes nothing
C9_ResetZeroes ==
    [][\A z \in Variables(slots) :
          (last'.op = "reset" /\ z.node = last'.node) =>
             /\ \A n \in AncestorsOrSelf(heap', z.node) : IsZero(heap'[n].grad)
             /\ ResetHeap(heap', z) = heap']_vars

\* the heap with every grad zeroed
Zeroed(h) == [n \in DOMAIN h |-> [h[n] EXCEPT !.grad = AfConstant(0, Dims(@))]]

\* the handle of the node the run is on
RootOf(n) == CHOOSE u \in slots : u.kind = "Variable" /\ u.node = n

\* C10: backward(); reset(); backward() leaves in every ancestor the grad a
\* single backward() on zeroed gradients leaves, whereas backward();
\* backward() adds the second pass to the values of the first
C10_BackwardResetBackward ==
    /\ last.run = <<"b", "r", "b">> =>
          \A n \in Ancestors(heap, last.node) :
             heap[n].grad = BackwardHeap(Zeroed(heap), RootOf(last.node))[n].grad
    /\ last.run = <<"b", "b">> =>
          \A n \in OriginRefs(heap[last.node].origin) :
             LET once == BackwardHeap(Zeroed(heap), RootOf(last.node))[n].grad
             IN heap[n].grad # once

\* ================================================================ identity
\* C13: no two live nodes carry the same id
C13_UniqueIds ==
    \A m, n \in DOMAIN heap : m # n => heap[m].id # heap[n].id

\* C14: the id of every node a node transitively depends on is strictly
\* smaller than the node's own id
C14_AncestorIdsSmaller ==
    \A n \in DOMAIN heap :
       \A a \in Ancestors(heap, n) : heap[a].id < heap[n].id

\* the tape x owns has the node n under n's own id
Holds(x, n) ==
    /\ heap[n].id \in DOMAIN x.tape
    /\ x.tape[heap[n].id] = n

\* C12: the tape of every live Variable contains the Variable's own node and
\* every node it transitively depends on, each under its own id
C12_TapeClosure ==
    \A x \in Variables(slots) :
       \A n \in AncestorsOrSelf(heap, x.node) : Holds(x, n)

\* C17: when the tapes of two live Variables both have an entry for an id,
\* the two entries are the same node, so that merging the tapes replaces no
\* node by a different one
C17_SharedIdSameNode ==
    \A x, y \in Variables(slots) :
       /\ \A i \in DOMAIN x.tape \cap DOMAIN y.tape : x.tape[i] = y.tape[i]
       /\ TapeRange(TapeMerge(x.tape, y.tape)) = TapeRange(x.tape) \cup TapeRange(y.tape)

\* ================================================================ Tape::merge
\* every key of the tape t maps to a node of the heap h with that id
KeyedById(h, t) == \A k \in DOMAIN t : h[t[k]].id = k

\* the step is x.push_binary(y, ..) on two Variables: the tape handed to
\* Variable::new is x.tape().merge(y.tape())
MergeStep(x, y) ==
    \E m \in {TapeMerge(x.tape, y.tape)} :
       /\ DOMAIN m = DOMAIN x.tape \cup DOMAIN y.tape
       /\ KeyedById(heap, m)
       /\ x \in slots' /\ y \in slots'
       /\ \E r \in slots' :
             /\ Produced(r)
             /\ DOMAIN r.tape = DOMAIN m \cup {heap'[r.node].id}
             /\ KeyedById(heap', r.tape)

\* C15: the tape Tape::merge(a, b) returns has the union of the keys of a and
\* b, every key maps to a node with that id, and a and b are what they were
C15_MergeUnion ==
    [][last'.op = "binary" =>
          \A x \in Variables(slots), y \in Variables(slots), op \in BinaryOps :
             Binary(x, y, op) => MergeStep(x, y)]_vars

\* a Variable made of two Variables whose tapes share a node and have each a
\* node the other lacks
C15_Witness ==
    /\ last.op = "binary" /\ last.node # 0
    /\ heap[last.node].origin.params = "VarVar"
    /\ \E x \in Variables(slots), y \in Variables(slots) :
          /\ x.node = heap[last.node].origin.a
          /\ y.node = heap[last.node].origin.b
          /\ TapeRange(x.tape) \cap TapeRange(y.tape) # {}
          /\ TapeRange(x.tape) \ TapeRange(y.tape) # {}
          /\ TapeRange(y.tape) \ TapeRange(x.tape) # {}
          /\ KeyedById(heap, TapeMerge(x.tape, y.tape))

\* the keys of the tape t under which the node n is
KeysOf(t, n) == {k \in DOMAIN t : t[k] = n}

\* the step is x.push_binary(c, ..) or c.push_binary(x, ..) on the Variable x
\* and a Constant: the tape handed to Variable::new is x.tape().merge(x.tape())
SelfMergeStep(x) ==
    \E r \in slots' :
       /\ Produced(r)
       /\ r.tape = TapePush(x.tape, heap'[r.node].id, r.node)

\* C16: a node of both tapes is in the merged tape once, the merge of a tape
\* with itself has the entries of the tape, and that is the tape the
\* Variable-with-Constant operations build on
C16_MergeIdempotent ==
    [][/\ \A u \in Variables(slots'), v \in Variables(slots') :
            /\ \A n \in TapeRange(u.tape) \cap TapeRange(v.tape) :
                  Cardinality(KeysOf(TapeMerge(u.tape, v.tape), n)) = 1
            /\ TapeMerge(u.tape, u.tape) = u.tape
       /\ (last'.op = "binary" =>
             \A x \in Variables(slots), c \in Constants(slots), op \in BinaryOps :
                /\ Binary(x, c, op) => SelfMergeStep(x)
                /\ Binary(c, x, op) => SelfMergeStep(x))]_vars

\* a Variable made of a Variable with a tape of two nodes and a Constant
C16_Witness ==
    /\ last.op = "binary" /\ last.node # 0
    /\ heap[last.node].origin.params \in {"VarConst", "ConstVar"}
    /\ \E x \in Variables(slots) :
          /\ x.node \in OriginRefs(heap[last.node].origin)
          /\ Cardinality(DOMAIN x.tape) = 2
          /\ TapeMerge(x.tape, x.tape) = x.tape

\* ================================================================ ownership
\* every node a Variable, a tape or an origin refers to is in the heap
NoDangling(h, sl) ==
    /\ \A x \in Variables(sl) : SlotRefs(x) \subseteq DOMAIN h
    /\ \A n \in DOMAIN h : OriginRefs(h[n].origin) \subseteq DOMAIN h

\* the tensors sl are what is held after the step: the nodes that survive
\* are those sl refers to, directly or through tapes and origins, and they
\* are what they were
Survive(sl) ==
    \E keep \in {Alive(heap, sl)} :
       \E ren \in {Ren(keep)} :
          /\ slots' = DropSlots(sl, ren)
          /\ Len(heap') = Cardinality(keep)
          /\ \A z \in Variables(sl) : AncestorsOrSelf(heap, z.node) \subseteq keep
          /\ \A n \in keep :
                /\ heap'[ren[n]].id = heap[n].id
                /\ heap'[ren[n]].data = heap[n].data
                /\ heap'[ren[n]].grad = heap[n].grad
          /\ \A n \in DOMAIN heap \ keep :
                /\ \A z \in Variables(sl) : n \notin SlotRefs(z)
                /\ \A m \in keep : n \notin OriginRefs(heap[m].origin)

\* C19: a node is destroyed, and COUNTER decremented, only when no Variable,
\* no tape and no origin refers to it: whatever is dropped or frozen, every
\* node a live Variable depends on stays in the heap as it was
C19_SharedOwnership ==
    [][/\ NoDangling(heap', slots')
       /\ COUNTER - COUNTER' = Len(heap) - Len(heap')
       /\ (last'.op = "drop" => \E x \in slots : Survive(slots \ {x}))
       /\ (last'.op = "freeze" =>
             \E x \in Variables(slots) :
                Survive((slots \ {x}) \cup {ConstantNew(heap[x.node].data)}))
       /\ (last'.op \notin {"drop", "freeze"} => Len(heap') >= Len(heap))]_vars

\* the owner of a node with a gradient was frozen, and the node is still
\* there for the Variable that depends on it
C19_Witness ==
    /\ last.op = "freeze"
    /\ \E z \in Variables(slots) :
          \E n \in Ancestors(heap, z.node) :
             /\ \A u \in Variables(slots) : u.node # n
             /\ ~IsZero(heap[n].grad)

\* ================================================================ freeze / unfreeze
\* the step is v.freeze(): the Constant returned has the data of v
FreezeStep ==
    \E x \in Variables(slots) :
       /\ last'.value = heap[x.node].data
       /\ ConstantNew(last'.value) \in slots'
       /\ Variables(slots') = Variables(DropSlots(slots \ {x}, Ren(Alive(heap, slots \ {x}))))

\* the step is the unfreeze() of the Constant the freeze() of v returned
RoundTripStep ==
    \E r \in slots' :
       /\ Produced(r) /\ r \notin slots
       /\ ConstantNew(last.value) \notin slots'
       /\ heap'[r.node].data = last.value
       /\ Cardinality(DOMAIN r.tape) = 1
       /\ TapeRange(r.tape) = {r.node}
       /\ heap'[r.node].origin.kind = "Declaration"
       /\ IsZero(heap'[r.node].grad)
       /\ r.node \notin DOMAIN heap
       /\ last.of # 0 =>
             /\ heap'[last.of].data = heap'[r.node].data
             /\ TapeRange(r.tape) \cap AncestorsOrSelf(heap', last.of) = {}

\* C11: v.freeze().unfreeze() is a Variable with the data of v whose tape has
\* one node, a Declaration with an all-zero grad that is none of the nodes v
\* depended on
C11_FreezeUnfreeze ==
    [][/\ (last'.op = "freeze" => FreezeStep)
       /\ (last'.op = "unfreeze" /\ JustFrozen(ConstantNew(last'.value)) /\ last.op = "freeze")
             => RoundTripStep]_vars

\* v was computed from another node and had a gradient when it was frozen
\* and unfrozen; its node is still there for a Variable that depends on it
C11_Witness ==
    /\ last.op = "unfreeze"
    /\ last.of # 0
    /\ Ancestors(heap, last.of) # {}
    /\ ~IsZero(heap[last.of].grad)
    /\ heap[last.node].data = heap[last.of].data
    /\ IsZero(heap[last.node].grad)

\* ================================================================ grad()
\* the step is x.grad(): the array returned is the grad of x's node, and the
\* nodes, the tapes and COUNTER are what they were
GradStep ==
    /\ COUNTER' = COUNTER
    /\ heap' = heap
    /\ slots' = slots
    /\ \E x \in Variables(slots) :
          /\ x.node = last'.of
          /\ last'.value = heap[x.node].grad

\* the caller holds an array grad() returned, and the call goes on with the
\* run of backward() / reset() calls
HeldOver ==
    /\ last.op \in {"backward", "reset", "grad"}
    /\ last.of # 0
    /\ last'.op \in {"backward", "reset"}
    /\ Len(last'.run) = Len(last.run) + 1

C18_WitnessBackward ==
    /\ last.run = <<"b", "g", "b">>
    /\ ~IsZero(last.value)
    /\ last.value # heap[last.of].grad

\* ================================================================ data
\* no node is destroyed by the step, and every node has the data it had
DataKept ==
    /\ Len(heap') >= Len(heap)
    /\ \A n \in DOMAIN heap : heap'[n].data = heap[n].data

\* the tensors sl are what is held after the step: the nodes they refer to
\* have the data they had
DataSurvives(sl) ==
    \E keep \in {Alive(heap, sl)} :
       \E ren \in {Ren(keep)} :
          /\ slots' = DropSlots(sl, ren)
          /\ Len(heap') = Cardinality(keep)
          /\ \A n \in keep : heap'[ren[n]].data = heap[n].data

\* the step changes the data of no node that exists before and after it
DataFixedStep ==
    IF last'.op = "drop"
    THEN \E x \in slots : DataSurvives(slots \ {x})
    ELSE IF last'.op = "freeze"
    THEN \E x \in Variables(slots) :
            DataSurvives((slots \ {x}) \cup {ConstantNew(heap[x.node].data)})
    ELSE DataKept

Stepped(x, lr, n) ==
    IF n = x.node /\ heap[n].origin.kind = "Declaration"
    THEN [i \in 1..Len(heap[n].data) |-> heap[n].data[i] - lr * heap[n].grad[i]]
    ELSE heap[n].data

\* the step is SGD::new(&[x.node()], lr).step()
StepData ==
    \E x \in Variables(slots), lr \in Rates :
       /\ x.node = last'.node
       /\ COUNTER' = COUNTER /\ slots' = slots
       /\ DOMAIN heap' = DOMAIN heap
       /\ \A n \in DOMAIN heap :
             heap' [n] = [heap[n] EXCEPT !.data = Stepped(x, lr, n)]

SeedStep(z) ==
    \E seeded \in {OnesGrad(heap, z.node)} :
       /\ seeded[z.node].grad = Ones(heap, z.node)
       /\ seeded = [heap EXCEPT ![z.node].grad = Ones(heap, z.node)]
       /\ heap' = ReverseScan(seeded, TapeNodesRev(z.tape))
       /\ heap'[z.node].grad = Ones(heap, z.node)
       /\ Dims(heap'[z.node].grad) = Dims(heap'[z.node].data)
       /\ heap[z.node].origin.kind = "Declaration" =>
             /\ heap' = seeded
             /\ COUNTER' = COUNTER /\ slots' = slots

C21_WitnessDeclaration ==
    /\ last.op = "backward" /\ last.run = <<"b", "b">>
    /\ heap[last.node].origin.kind = "Declaration"
    /\ heap[last.node].grad = Ones(heap, last.node)

\* ================================================================ the scan
\* the heap the i-th call of reverse() of the scan of z's tape reads
ScanBefore(z, i) ==
    ReverseScan(OnesGrad(heap, z.node), SubSeq(TapeNodesRev(z.tape), 1, i - 1))

\* the step is z.backward(): no node is an operand of (is written by) a node
\* the scan calls later, and the grad each reverse() reads is the grad the
\* node has when backward() returns
FinalWhenRead(z) ==
    \E ns \in {TapeNodesRev(z.tape)} :
       \A i \in 1..Len(ns) :
          /\ \A j \in (i + 1)..Len(ns) : ns[i] \notin OriginRefs(heap[ns[j]].origin)
          /\ ScanBefore(z, i)[ns[i]].grad = heap'[ns[i]].grad

\* C22: once the reverse scan of z.backward() has called the reverse() of a
\* node, no later call of the scan writes to the grad of that node
C22_FinalOncePassed ==
    [][last'.op = "backward" =>
          \A z \in Variables(slots) : z.node = last'.node => FinalWhenRead(z)]_vars

\* z = sum(x + y) with x and y two different declared nodes
SumOfTwo(z) ==
    /\ heap[z].origin.kind = "Unary" /\ heap[z].origin.reverse = "sum"
    /\ \E s \in {heap[z].origin.a} :
          /\ heap[s].origin.kind = "Binary"
          /\ heap[s].origin.params = "VarVar"
          /\ heap[s].origin.reverse = "add"
          /\ heap[s].origin.a # heap[s].origin.b
          /\ heap[heap[s].origin.a].origin.kind = "Declaration"
          /\ heap[heap[s].origin.b].origin.kind = "Declaration"

\* C23: for z = sum(x + y) with x and y separately declared, z.backward() on
\* zeroed gradients leaves an all-ones grad in both x and y: the reverse of
\* the addition hands each operand its own partial and the pass reaches both
C23_BothOperandsReached ==
    (FirstBackward /\ SumOfTwo(last.node)) =>
        \E s \in {heap[last.node].origin.a} :
           /\ heap[heap[s].origin.a].grad = Ones(heap, heap[s].origin.a)
           /\ heap[heap[s].origin.b].grad = Ones(heap, heap[s].origin.b)

\* the step creates a node: it is the only one created, its id is the number
\* of nodes that were alive, and no other node changes its id
CreatedWithLiveCount ==
    Len(heap') > Len(heap) =>
        /\ Len(heap') = Len(heap) + 1
        /\ heap'[Len(heap')].id = Len(heap)
        /\ \A n \in DOMAIN heap : heap'[n].id = heap[n].id

\* the step drops the tensor made by the step before, and its node with it
DropsNewest ==
    /\ last.op \in {"declare", "unary", "binary"} /\ last.node # 0
    /\ last'.op = "drop"
    /\ \E x \in slots :
          /\ x.kind = "Variable" /\ x.node = last.node
          /\ Drop(x)
          /\ Alive(heap, slots \ {x}) = DOMAIN heap \ {last.node}

\* C24: COUNTER is the number of live nodes before and after every step, a
\* new node gets the number of nodes alive at its creation as its id, and
\* once the node created last is dropped COUNTER is that node's id again, so
\* the next node created gets it
C24_IdIsLiveCount ==
    [][/\ COUNTER = Len(heap)
       /\ COUNTER' = Len(heap')
       /\ CreatedWithLiveCount
       /\ (DropsNewest => COUNTER' = heap[last.node].id)]_vars

\* a node was just created with the live count as its id while an older live
\* node carries an id at least as large: a drop gave the count back
C24_Witness ==
    /\ last.op \in {"declare", "unary", "binary"} /\ last.node # 0
    /\ COUNTER = Len(heap)
    /\ heap[last.node].id = Len(heap) - 1
    /\ \E n \in DOMAIN heap : n # last.node /\ heap[n].id >= heap[last.node].id

\* the step is SGD::new(&[the nodes of xs], lr).step(): the nodes kept are
\* the Declarations among those given, the data of each is data - lr * grad,
\* and no other data, no grad, origin, id, tape or COUNTER changes
OptimizerStep(xs, lr) ==
    \E given \in {{x.node : x \in xs}} :
       \E kept \in {{n \in given : heap[n].origin.kind = "Declaration"}} :
          /\ SGDNew(heap, given) = kept
          /\ COUNTER' = COUNTER /\ slots' = slots
          /\ DOMAIN heap' = DOMAIN heap
          /\ \A n \in DOMAIN heap :
                /\ heap'[n].grad = heap[n].grad
                /\ heap'[n].origin = heap[n].origin
                /\ heap'[n].id = heap[n].id
                /\ (n \in kept =>
                      heap'[n].data =
                         [i \in 1..Len(heap[n].data) |->
                             heap[n].data[i] - lr * heap[n].grad[i]])
                /\ (n \notin kept => heap'[n].data = heap[n].data)

OperandsUntouched ==
    /\ slots \subseteq slots'
    /\ Len(heap') >= Len(heap)
    /\ \A n \in DOMAIN heap : heap'[n] = heap[n]
    /\ \A r \in Variables(slots' \ slots) :
          /\ r.node \notin DOMAIN heap
          /\ r.node \in TapeRange(r.tape)

\* the entry a tape has under the key k is the same node after the step
SameEntry(u, v, k) ==
    /\ heap'[v.tape[k]].id = heap[u.tape[k]].id
    /\ heap'[v.tape[k]].data = heap[u.tape[k]].data
    /\ heap'[v.tape[k]].origin.kind = heap[u.tape[k]].origin.kind

\* every Variable held before and after the step has the entries it had
TapesKept ==
    IF last'.op = "drop"
    THEN \E x \in slots :
            /\ Cardinality(slots') = Cardinality(slots) - 1
            /\ \A u \in Variables(slots \ {x}) :
                  \E v \in Variables(slots') :
                     /\ DOMAIN v.tape = DOMAIN u.tape
                     /\ heap'[v.node].id = heap[u.node].id
                     /\ \A k \in DOMAIN u.tape : SameEntry(u, v, k)
    ELSE Variables(slots) \subseteq slots'

\* C29: a unary or binary operation leaves every operand's tape, node, data
\* and grad as they were and gives the result a tape of its own with the new
\* node in it, and on every step a Variable that stays has the tape entries it
\* had
C29_OperandsUnchanged ==
    [][/\ (last'.op \in {"unary", "binary"} => OperandsUntouched)
       /\ TapesKept]_vars

\* z = op(x) was just made of a Variable x that already had a gradient: x is
\* still held with its shorter tape and its gradient
C29_Witness ==
    /\ last.op = "unary" /\ last.node # 0
    /\ \E x \in Variables(slots), z \in Variables(slots) :
          /\ z.node = last.node
          /\ x.node = heap[z.node].origin.a
          /\ ~IsZero(heap[x.node].grad)
          /\ z.node \notin TapeRange(x.tape)
          /\ x.node \in TapeRange(z.tape)

\* the step writes gradients only, and none outside the nodes in
GradOnlyStep(nodes) ==
    /\ COUNTER' = COUNTER /\ slots' = slots
    /\ DOMAIN heap' = DOMAIN heap
    /\ \A n \in DOMAIN heap :
          /\ heap'[n].id = heap[n].id
          /\ heap'[n].data = heap[n].data
          /\ heap'[n].origin = heap[n].origin
          /\ (n \notin nodes => heap'[n].grad = heap[n].grad)

\* C30: z.backward() and z.reset() create and destroy no node and leave
\* COUNTER, every tape and every node's data as they were, and the grad of a
\* node that is neither z's nor an ancestor of z is what it was
C30_GradOnly ==
    [][last'.op \in {"backward", "reset"} =>
          \A z \in Variables(slots) :
             z.node = last'.node =>
                GradOnlyStep(AncestorsOrSelf(heap, z.node))]_vars

\* z.backward() has run on a computed z while a node that z does not depend
\* on holds the gradient of an earlier pass
C30_Witness ==
    /\ last.op = "backward"
    /\ heap[last.node].origin.kind # "Declaration"
    /\ ~IsZero(heap[heap[last.node].origin.a].grad)
    /\ \E n \in DOMAIN heap :
          /\ n \notin AncestorsOrSelf(heap, last.node)
          /\ ~IsZero(heap[n].grad)

Scales == {0, 2, 3}
Scale(k, x) == [i \in 1..Len(x) |-> k * x[i]]

\* reverse() was called on the node n of a unary operation: what it added to
\* the operand's grad is the rule's partial for the adjoint df; a zero df
\* gives a zero partial, and k times df gives k times the partial
LinearRule(n) ==
    \E o \in {heap[n].origin} :
       \E df \in {heap[n].grad} :
          \E partial \in {[i \in 1..Len(heap[o.a].grad) |->
                              heap'[o.a].grad[i] - heap[o.a].grad[i]]} :
             /\ partial = UnaryReverseFn(o.reverse, df, o.args)
             /\ (IsZero(df) => IsZero(partial))
             /\ \A k \in Scales :
                   UnaryReverseFn(o.reverse, Scale(k, df), o.args) = Scale(k, partial)

\* C28: the reverse rule of every unary operation, maxpool2d included, is
\* linear in the adjoint df: a zero df yields a zero partial, and scaling df
\* scales the partial
C28_ReverseLinear ==
    [][(last'.op = "reverse" /\ heap[last'.node].origin.kind = "Unary") =>
          LinearRule(last'.node)]_vars

\* ================================================================ context tape
\* the indices of the functions the function of index i depends on
RECURSIVE DependsOn(_, _)
DependsOn(t, S) ==
    LET nxt == S \cup UNION {ParamIndices(t[i + 1]) : i \in S}
    IN IF nxt = S THEN S ELSE DependsOn(t, nxt)

\* the step is Gradients::compute(&z).wrt(&x) and has returned: the array has
\* the dims of x, and is all-zero when z does not depend on x
WrtStep(z, x) ==
    /\ Dims(last'.value) = Dims(x.value)
    /\ (x.index \notin DependsOn(heap, {z.index}) => IsZero(last'.value))

\* C26: in the context-tape implementation Gradients::compute(z).wrt(x) has
\* the shape of x, and is all-zero when z does not depend on x, for every
\* Variable x on z's tape, those that get no contribution included
C26_WrtShape ==
    [][last'.op = "wrt" =>
          \A z \in Variables(slots), x \in Variables(slots) :
             ComputeWrt(z, x) => WrtStep(z, x)]_vars

\* every index a Variable held or a function of the tape stores is a position
\* of the tape, and a function stores indices below its own only
IndicesValid ==
    /\ \A v \in Variables(slots) : v.index < TapeLen(heap)
    /\ \A i \in 1..Len(heap) : \A index \in ParamIndices(heap[i]) : index < i - 1

\* C27: in the context-tape implementation every index held by a live
\* Variable or stored in a function of the tape is a position of the tape
\* below the index of the function that stores it, whatever creations,
\* operations and reset() calls came before, and Gradients::compute never
\* indexes outside its vector
C27_IndicesValid == IndicesValid /\ last.op # "panic"

TypeOK ==
    /\ COUNTER \in 0..MaxNodes
    /\ Len(heap) <= MaxNodes
    /\ Cardinality(slots) <= MaxSlots

====
